---- MODULE Spec2Model ----
(***************************************************************************)
(* A small-step model of the Lox tree-walking evaluator                    *)
(* (src/src/evaluator.rs) and of the `run` / `evaluate` driver             *)
(* (src/src/main.rs).                                                      *)
(*                                                                         *)
(* The recursive functions evaluate, execute_stmt and execute_block are    *)
(* modelled as a machine with an explicit continuation stack: `ctl` is     *)
(* the call that is being entered or the result that is being returned,    *)
(* `kont` the stack of suspended callers (innermost first), `heap` the     *)
(* Rc<RefCell<Environment>> frames, addressed by their index.              *)
(***************************************************************************)
EXTENDS Integers, Sequences, FiniteSets, TLC

VARIABLES
    prog,       \* the parsed program handed to the driver (an input)
    cmd,        \* the sub-command, "run" or "evaluate"
    ctl,        \* the call being entered or the result being returned
    kont,       \* suspended callers, innermost first
    heap,       \* environment frames; a frame's id is its index
    stdout,     \* lines written by println!
    stderr,     \* lines written by eprintln!
    exit,       \* process exit code, NoExit while running
    fsnap,      \* history: per declared function, the bindings its closure saw
    callOf,     \* history: per frame, the function whose call created it
    access      \* history: the latest variable read or assignment

vars == <<prog, cmd, ctl, kont, heap, stdout, stderr, exit, fsnap, callOf, access>>

-----------------------------------------------------------------------------
(* Bounds of the model                                                     *)

MaxLine == 2
MaxNum == 1
MaxClock == 1
MaxArity == 2
LoopMax == 2

-----------------------------------------------------------------------------
(* Values, tokens, results                                                 *)

Number(n) == [t |-> "Number", n |-> n]
String(s) == [t |-> "String", s |-> s]
Boolean(b) == [t |-> "Boolean", b |-> b]
Nil == [t |-> "Nil"]
NativeFunction == [t |-> "NativeFunction", f |-> "clock"]
Function(name, params, body, closure) ==
    [t |-> "Function", name |-> name, params |-> params, body |-> body,
     closure |-> closure]

Token(type, lexeme, line) == [type |-> type, lexeme |-> lexeme, line |-> line]

Error(message, line) == [t |-> "Error", message |-> message, line |-> line]
Return(value) == [t |-> "Return", value |-> value]

Ok(v) == [ok |-> TRUE, v |-> v]
Err(e) == [ok |-> FALSE, e |-> e]

Abs(i) == IF i < 0 THEN -i ELSE i

Digits == <<"0", "1", "2", "3", "4", "5", "6", "7", "8", "9">>

RECURSIVE NatStr(_)
NatStr(n) ==
    IF n < 10 THEN Digits[n + 1] ELSE NatStr(n \div 10) \o Digits[(n % 10) + 1]

\* Display of an integer (usize, or an integer-valued f64).
IntStr(i) == IF i < 0 THEN "-" \o NatStr(-i) ELSE NatStr(i)

Display(value) ==
    CASE value.t = "Number" -> IntStr(value.n)
      [] value.t = "String" -> value.s
      [] value.t = "Boolean" -> IF value.b THEN "true" ELSE "false"
      [] value.t = "Nil" -> "nil"
      [] value.t = "NativeFunction" -> "<native fn>"
      [] value.t = "Function" -> "<fn " \o value.name \o ">"

is_number(value) == value.t = "Number"

get_number(value) ==
    IF value.t = "Number" THEN Ok(value.n)
    ELSE Err(Error("Operand must be a number.", 0))

is_string(value) == value.t = "String"

is_truthy(value) ==
    CASE value.t = "Boolean" -> value.b
      [] value.t = "Nil" -> FALSE
      [] OTHER -> TRUE

\* Numbers of the model are integer-valued doubles; f64::EPSILON = 2^-52 < 1,
\* so |l - r| < EPSILON is |l - r| < 1 on them.
compare_equality(left, right) ==
    CASE left.t = "Number" /\ right.t = "Number" -> Ok(Abs(left.n - right.n) < 1)
      [] left.t = "String" /\ right.t = "String" -> Ok(left.s = right.s)
      [] left.t = "Boolean" /\ right.t = "Boolean" -> Ok(left.b = right.b)
      [] left.t = "Nil" /\ right.t = "Nil" -> Ok(TRUE)
      [] OTHER -> Ok(FALSE)

Compare(kind, a, b) ==
    CASE kind = "Greater" -> a > b
      [] kind = "GreaterEqual" -> a >= b
      [] kind = "Less" -> a < b
      [] kind = "LessEqual" -> a <= b

compare_values(left, right, kind) ==
    IF left.t = "Number" /\ right.t = "Number"
    THEN Ok(Boolean(Compare(kind, left.n, right.n)))
    ELSE Err(Error("Operands must be numbers.", 0))

-----------------------------------------------------------------------------
(* Environment                                                             *)

NoFrame == 0
NoValues == [x \in {} |-> Nil]

new == [values |-> NoValues, enclosing |-> NoFrame]
new_with_enclosing(enclosing) == [values |-> NoValues, enclosing |-> enclosing]

\* self.values.insert(name, value) on frame env
define(h, env, name, value) ==
    [h EXCEPT ![env].values =
        [x \in DOMAIN h[env].values \cup {name} |->
            IF x = name THEN value ELSE h[env].values[x]]]

define_natives(h, env) == define(h, env, "clock", NativeFunction)

RECURSIVE get(_, _, _)
get(h, env, name_token) ==
    IF name_token.lexeme \in DOMAIN h[env].values
    THEN Ok(h[env].values[name_token.lexeme])
    ELSE IF h[env].enclosing # NoFrame
    THEN get(h, h[env].enclosing, name_token)
    ELSE Err(Error("Undefined variable '" \o name_token.lexeme \o "'",
                   name_token.line))

\* Variant: assigning to a name no frame holds declares it in the root frame.
RECURSIVE assign_or_define(_, _, _, _)
assign_or_define(h, env, name_token, value) ==
    IF name_token.lexeme \in DOMAIN h[env].values
    THEN Ok(define(h, env, name_token.lexeme, value))
    ELSE IF h[env].enclosing # NoFrame
    THEN assign_or_define(h, h[env].enclosing, name_token, value)
    ELSE Ok(define(h, env, name_token.lexeme, value))

RECURSIVE assign(_, _, _, _)
assign(h, env, name_token, value) ==
    IF name_token.lexeme \in DOMAIN h[env].values
    THEN Ok(define(h, env, name_token.lexeme, value))
    ELSE IF h[env].enclosing # NoFrame
    THEN assign(h, h[env].enclosing, name_token, value)
    ELSE Err(Error("Undefined variable '" \o name_token.lexeme \o "'",
                   name_token.line))

-----------------------------------------------------------------------------
(* Syntax trees (crate::parser, consumed by the evaluator)                 *)

None == [k |-> "None"]

Literal(literal) == [k |-> "Literal", literal |-> literal]
Grouping(expr) == [k |-> "Grouping", expr |-> expr]
Unary(operator, expr) == [k |-> "Unary", operator |-> operator, expr |-> expr]
Binary(left, operator, right) ==
    [k |-> "Binary", left |-> left, operator |-> operator, right |-> right]
Variable(name) == [k |-> "Variable", name |-> name]
Assign(name, value) == [k |-> "Assign", name |-> name, value |-> value]
Logical(left, operator, right) ==
    [k |-> "Logical", left |-> left, operator |-> operator, right |-> right]
Call(callee, paren, arguments) ==
    [k |-> "Call", callee |-> callee, paren |-> paren, arguments |-> arguments]

ExpressionStmt(expr) == [k |-> "Expression", expr |-> expr]
PrintStmt(expr) == [k |-> "Print", expr |-> expr]
VarStmt(name, initializer) ==
    [k |-> "Var", name |-> name, initializer |-> initializer]
BlockStmt(statements) == [k |-> "Block", statements |-> statements]
IfStmt(condition, then_branch, else_branch) ==
    [k |-> "If", condition |-> condition, then_branch |-> then_branch,
     else_branch |-> else_branch]
WhileStmt(condition, body) ==
    [k |-> "While", condition |-> condition, body |-> body]
FunctionStmt(name, params, body) ==
    [k |-> "Function", name |-> name, params |-> params, body |-> body]
ReturnStmt(keyword, value) ==
    [k |-> "Return", keyword |-> keyword, value |-> value]

\* LiteralValue -> Value (evaluate, Expr::Literal)
LiteralToValue(literal) ==
    CASE literal.t = "Boolean" -> Boolean(literal.b)
      [] literal.t = "Number" -> Number(literal.n)
      [] literal.t = "String" -> String(literal.s)
      [] literal.t = "Nil" -> Nil

-----------------------------------------------------------------------------
(* Operators (evaluate, Expr::Unary and Expr::Binary after the operands)   *)

unary_op(operator, right) ==
    CASE operator.type = "Minus" ->
            IF right.t = "Number" THEN Ok(Number(-right.n))
            ELSE Err(Error("Operand must be a number.", operator.line))
      [] operator.type = "Bang" -> Ok(Boolean(~is_truthy(right)))
      [] OTHER -> Ok(String("Unimplemented"))

binary_op(operator, left, right) ==
    CASE operator.type = "Plus" ->
            IF is_number(left) /\ is_number(right)
            THEN Ok(Number(get_number(left).v + get_number(right).v))
            ELSE IF is_string(left) /\ is_string(right)
            THEN Ok(String(left.s \o right.s))
            ELSE Err(Error("Operands must be two numbers or two strings.",
                           operator.line))
      [] operator.type = "Minus" ->
            IF is_number(left) /\ is_number(right)
            THEN Ok(Number(get_number(left).v - get_number(right).v))
            ELSE Err(Error("Operands must be numbers.", operator.line))
      [] operator.type = "Star" ->
            IF is_number(left) /\ is_number(right)
            THEN Ok(Number(get_number(left).v * get_number(right).v))
            ELSE Err(Error("Operands must be numbers.", operator.line))
      [] operator.type = "Slash" ->
            IF is_number(left) /\ is_number(right)
            THEN IF get_number(right).v = 0
                 THEN Err(Error("Division by zero.", operator.line))
                 ELSE Ok(Number(get_number(left).v \div get_number(right).v))
            ELSE Err(Error("Operands must be numbers.", operator.line))
      [] operator.type \in {"Greater", "GreaterEqual", "Less", "LessEqual"} ->
            compare_values(left, right, operator.type)
      [] operator.type = "EqualEqual" ->
            Ok(Boolean(compare_equality(left, right).v))
      [] operator.type = "BangEqual" ->
            Ok(Boolean(~compare_equality(left, right).v))
      [] OTHER -> Ok(String("Unimplemented"))

\* evaluate, Expr::Variable: the lookup, its error re-stamped with name.line
variable_get(h, env, name) ==
    LET r == get(h, env, name)
    IN  IF r.ok THEN r
        ELSE IF r.e.t = "Error" THEN Err(Error(r.e.message, name.line))
        ELSE r

\* Variant: `and` short-circuits on a truthy left value, as `or` does.
logical_short_same(operator, left_val) ==
    IF operator.type \in {"Or", "And"} THEN is_truthy(left_val) ELSE FALSE

\* evaluate, Expr::Logical: whether the left value is the result
logical_short(operator, left_val) ==
    IF operator.type = "Or" THEN is_truthy(left_val)
    ELSE IF operator.type = "And" THEN ~is_truthy(left_val)
    ELSE FALSE

\* Variant: only a call with too many arguments is refused.
arity_error_too_many(callee_val, paren, arguments) ==
    CASE callee_val.t = "NativeFunction" ->
            IF Len(arguments) # 0
            THEN Error("Native function expects 0 arguments.", paren.line)
            ELSE None
      [] callee_val.t = "Function" ->
            IF Len(arguments) > Len(callee_val.params)
            THEN Error("Expected " \o IntStr(Len(callee_val.params))
                       \o " arguments but got " \o IntStr(Len(arguments)) \o ".",
                       paren.line)
            ELSE None
      [] OTHER -> Error("Can only call functions.", paren.line)

\* evaluate, Expr::Call: the callee's arity check; None when the call goes on
arity_error(callee_val, paren, arguments) ==
    CASE callee_val.t = "NativeFunction" ->
            IF Len(arguments) # 0
            THEN Error("Native function expects 0 arguments.", paren.line)
            ELSE None
      [] callee_val.t = "Function" ->
            IF Len(arguments) # Len(callee_val.params)
            THEN Error("Expected " \o IntStr(Len(callee_val.params))
                       \o " arguments but got " \o IntStr(Len(arguments)) \o ".",
                       paren.line)
            ELSE None
      [] OTHER -> Error("Can only call functions.", paren.line)

\* Variant: the call yields Nil whatever the body returned.
call_result_nil(result) ==
    CASE result.m = "ok" -> [m |-> "val", v |-> Nil]
      [] result.m = "err" /\ result.e.t = "Return" -> [m |-> "val", v |-> Nil]
      [] OTHER -> result

\* Variant: a failure of the body is swallowed by the call.
call_result_swallow(result) ==
    CASE result.m = "err" /\ result.e.t = "Return" ->
            [m |-> "val", v |-> result.e.value]
      [] OTHER -> [m |-> "val", v |-> Nil]

\* Variant: the call hands the Return signal on to its own caller.
call_result_leak(result) ==
    CASE result.m = "ok" -> [m |-> "val", v |-> Nil]
      [] OTHER -> result

\* evaluate, Expr::Call: the match on execute_block's result
call_result(result) ==
    CASE result.m = "ok" -> [m |-> "val", v |-> Nil]
      [] result.m = "err" /\ result.e.t = "Return" ->
            [m |-> "val", v |-> result.e.value]
      [] OTHER -> result

-----------------------------------------------------------------------------
(* Machine states                                                          *)

NoExit == -1

Eval(expr, env) == [m |-> "eval", expr |-> expr, env |-> env]
Exec(stmt, print_expr_result, env) ==
    [m |-> "exec", stmt |-> stmt, print_expr_result |-> print_expr_result,
     env |-> env]
Val(v) == [m |-> "val", v |-> v]
Done == [m |-> "ok"]
Raise(e) == [m |-> "err", e |-> e]
FromResult(r) == IF r.ok THEN Val(r.v) ELSE Raise(r.e)

Top == Head(kont)
Push(frame) == <<frame>> \o kont
Swap(frame) == <<frame>> \o Tail(kont)
Pop == Tail(kont)

Returning(mode, frame) == ctl.m = mode /\ kont # <<>> /\ Top.k = frame

\* The frame a name resolves to from env (the walk of get and assign).
RECURSIVE Resolve(_, _, _)
Resolve(h, env, name) ==
    IF name \in DOMAIN h[env].values THEN env
    ELSE IF h[env].enclosing # NoFrame THEN Resolve(h, h[env].enclosing, name)
    ELSE NoFrame

RECURSIVE Chain(_, _)
Chain(h, env) ==
    IF env = NoFrame THEN <<>> ELSE <<env>> \o Chain(h, h[env].enclosing)

Names(h) == UNION {DOMAIN h[i].values : i \in 1..Len(h)}

Quiet == UNCHANGED <<prog, cmd, stdout, stderr, exit>>
NoHistory == UNCHANGED <<fsnap, callOf, access>>

\* A step that changes the control state and the stack only.
Goto(c, k) == ctl' = c /\ kont' = k /\ UNCHANGED heap /\ Quiet /\ NoHistory

-----------------------------------------------------------------------------
(* evaluate                                                                *)

Evaluating(kind) == ctl.m = "eval" /\ ctl.expr.k = kind

EvalLiteral ==
    /\ Evaluating("Literal")
    /\ Goto(Val(LiteralToValue(ctl.expr.literal)), kont)

EvalGrouping ==
    /\ Evaluating("Grouping")
    /\ Goto(Eval(ctl.expr.expr, ctl.env), kont)

EvalUnary ==
    /\ Evaluating("Unary")
    /\ Goto(Eval(ctl.expr.expr, ctl.env),
            Push([k |-> "Unary", operator |-> ctl.expr.operator]))

UnaryRet ==
    /\ Returning("val", "Unary")
    /\ Goto(FromResult(unary_op(Top.operator, ctl.v)), Pop)

EvalBinary ==
    /\ Evaluating("Binary")
    /\ Goto(Eval(ctl.expr.left, ctl.env),
            Push([k |-> "BinaryLeft", expr |-> ctl.expr, env |-> ctl.env]))

BinaryLeftRet ==
    /\ Returning("val", "BinaryLeft")
    /\ Goto(Eval(Top.expr.right, Top.env),
            Swap([k |-> "BinaryRight", operator |-> Top.expr.operator,
                  left |-> ctl.v]))

BinaryRightRet ==
    /\ Returning("val", "BinaryRight")
    /\ Goto(FromResult(binary_op(Top.operator, Top.left, ctl.v)), Pop)

EvalVariable ==
    /\ Evaluating("Variable")
    /\ ctl' = FromResult(variable_get(heap, ctl.env, ctl.expr.name))
    /\ access' = [name |-> ctl.expr.name.lexeme, env |-> ctl.env,
                  target |-> Resolve(heap, ctl.env, ctl.expr.name.lexeme)]
    /\ UNCHANGED <<kont, heap, fsnap, callOf>>
    /\ Quiet

EvalAssign ==
    /\ Evaluating("Assign")
    /\ Goto(Eval(ctl.expr.value, ctl.env),
            Push([k |-> "Assign", name |-> ctl.expr.name, env |-> ctl.env]))

AssignRet ==
    /\ Returning("val", "Assign")
    /\ LET r == assign(heap, Top.env, Top.name, ctl.v)
       IN  /\ ctl' = IF r.ok THEN Val(ctl.v) ELSE Raise(r.e)
           /\ heap' = IF r.ok THEN r.v ELSE heap
    /\ kont' = Pop
    /\ access' = [name |-> Top.name.lexeme, env |-> Top.env,
                  target |-> Resolve(heap, Top.env, Top.name.lexeme)]
    /\ UNCHANGED <<fsnap, callOf>>
    /\ Quiet

EvalLogical ==
    /\ Evaluating("Logical")
    /\ Goto(Eval(ctl.expr.left, ctl.env),
            Push([k |-> "Logical", expr |-> ctl.expr, env |-> ctl.env]))

LogicalRet ==
    /\ Returning("val", "Logical")
    /\ IF logical_short(Top.expr.operator, ctl.v)
       THEN Goto(Val(ctl.v), Pop)
       ELSE Goto(Eval(Top.expr.right, Top.env), Pop)

EvalCall ==
    /\ Evaluating("Call")
    /\ Goto(Eval(ctl.expr.callee, ctl.env),
            Push([k |-> "Callee", expr |-> ctl.expr, env |-> ctl.env]))

\* The callee is not callable, or the argument count is not its arity.
CallRefused ==
    /\ Returning("val", "Callee")
    /\ arity_error(ctl.v, Top.expr.paren, Top.expr.arguments) # None
    /\ Goto(Raise(arity_error(ctl.v, Top.expr.paren, Top.expr.arguments)), Pop)

CallNative ==
    /\ Returning("val", "Callee")
    /\ ctl.v.t = "NativeFunction"
    /\ arity_error(ctl.v, Top.expr.paren, Top.expr.arguments) = None
    /\ \E now \in 0..MaxClock : Goto(Val(Number(now)), Pop)

\* execute_block(&body, function_env) under the match of Expr::Call
EnterBody(body, function_env) ==
    <<[k |-> "Block", statements |-> body, i |-> 1, env |-> function_env],
      [k |-> "CallBody"]>> \o Pop

\* params.iter().zip(arguments): the number of pairs
ZipLen(params, arguments) ==
    IF Len(params) <= Len(arguments) THEN Len(params) ELSE Len(arguments)

CallFunction ==
    /\ Returning("val", "Callee")
    /\ ctl.v.t = "Function"
    /\ arity_error(ctl.v, Top.expr.paren, Top.expr.arguments) = None
    /\ LET function_env == Len(heap) + 1
       IN  /\ heap' = Append(heap, new_with_enclosing(ctl.v.closure))
           /\ callOf' = Append(callOf,
                               [closure |-> ctl.v.closure, name |-> ctl.v.name])
           /\ IF ZipLen(ctl.v.params, Top.expr.arguments) = 0
              THEN /\ ctl' = Done
                   /\ kont' = EnterBody(ctl.v.body, function_env)
              ELSE /\ ctl' = Eval(Top.expr.arguments[1], Top.env)
                   /\ kont' = Swap([k |-> "Argument", i |-> 1,
                                    arguments |-> Top.expr.arguments,
                                    params |-> ctl.v.params,
                                    body |-> ctl.v.body,
                                    env |-> Top.env,
                                    function_env |-> function_env])
    /\ UNCHANGED <<fsnap, access>>
    /\ Quiet

ArgumentRet ==
    /\ Returning("val", "Argument")
    /\ heap' = define(heap, Top.function_env, Top.params[Top.i].lexeme, ctl.v)
    /\ IF Top.i < ZipLen(Top.params, Top.arguments)
       THEN /\ ctl' = Eval(Top.arguments[Top.i + 1], Top.env)
            /\ kont' = Swap([Top EXCEPT !.i = Top.i + 1])
       ELSE /\ ctl' = Done
            /\ kont' = EnterBody(Top.body, Top.function_env)
    /\ Quiet
    /\ NoHistory

CallBodyRet ==
    /\ ctl.m \in {"ok", "err"}
    /\ kont # <<>>
    /\ Top.k = "CallBody"
    /\ Goto(call_result(ctl), Pop)

\* The `?` of every other caller: an Err is handed on unchanged.
Propagate ==
    /\ ctl.m = "err"
    /\ kont # <<>>
    /\ Top.k # "CallBody"
    /\ Goto(ctl, Pop)

-----------------------------------------------------------------------------
(* execute_stmt and execute_block                                          *)

Executing(kind) == ctl.m = "exec" /\ ctl.stmt.k = kind

ExecPrint ==
    /\ Executing("Print")
    /\ Goto(Eval(ctl.stmt.expr, ctl.env), Push([k |-> "Print"]))

PrintRet ==
    /\ Returning("val", "Print")
    /\ stdout' = Append(stdout, Display(ctl.v))
    /\ ctl' = Done
    /\ kont' = Pop
    /\ UNCHANGED <<prog, cmd, heap, stderr, exit>>
    /\ NoHistory

ExecExpression ==
    /\ Executing("Expression")
    /\ Goto(Eval(ctl.stmt.expr, ctl.env),
            Push([k |-> "Expression",
                  print_expr_result |-> ctl.print_expr_result]))

ExpressionRet ==
    /\ Returning("val", "Expression")
    /\ stdout' = IF Top.print_expr_result
                 THEN Append(stdout, Display(ctl.v)) ELSE stdout
    /\ ctl' = Done
    /\ kont' = Pop
    /\ UNCHANGED <<prog, cmd, heap, stderr, exit>>
    /\ NoHistory

ExecVar ==
    /\ Executing("Var")
    /\ IF ctl.stmt.initializer.k # "None"
       THEN Goto(Eval(ctl.stmt.initializer, ctl.env),
                 Push([k |-> "Var", name |-> ctl.stmt.name, env |-> ctl.env]))
       ELSE /\ heap' = define(heap, ctl.env, ctl.stmt.name.lexeme, Nil)
            /\ ctl' = Done
            /\ UNCHANGED kont
            /\ Quiet
            /\ NoHistory

VarRet ==
    /\ Returning("val", "Var")
    /\ heap' = define(heap, Top.env, Top.name.lexeme, ctl.v)
    /\ ctl' = Done
    /\ kont' = Pop
    /\ Quiet
    /\ NoHistory

ExecBlock ==
    /\ Executing("Block")
    /\ heap' = Append(heap, new_with_enclosing(ctl.env))
    /\ callOf' = Append(callOf, None)
    /\ ctl' = Done
    /\ kont' = Push([k |-> "Block", statements |-> ctl.stmt.statements,
                     i |-> 1, env |-> Len(heap) + 1])
    /\ UNCHANGED <<fsnap, access>>
    /\ Quiet

\* execute_block: the next statement of the loop, or Ok(()) after the last
BlockNext ==
    /\ Returning("ok", "Block")
    /\ IF Top.i <= Len(Top.statements)
       THEN Goto(Exec(Top.statements[Top.i], FALSE, Top.env),
                 Swap([Top EXCEPT !.i = Top.i + 1]))
       ELSE Goto(Done, Pop)

ExecIf ==
    /\ Executing("If")
    /\ Goto(Eval(ctl.stmt.condition, ctl.env),
            Push([k |-> "IfCondition", stmt |-> ctl.stmt,
                  print_expr_result |-> ctl.print_expr_result,
                  env |-> ctl.env]))

IfConditionRet ==
    /\ Returning("val", "IfCondition")
    /\ IF is_truthy(ctl.v)
       THEN Goto(Exec(Top.stmt.then_branch, Top.print_expr_result, Top.env),
                 Swap([k |-> "IfBranch"]))
       ELSE IF Top.stmt.else_branch.k # "None"
       THEN Goto(Exec(Top.stmt.else_branch, Top.print_expr_result, Top.env),
                 Swap([k |-> "IfBranch"]))
       ELSE Goto(Done, Pop)

IfBranchRet ==
    /\ Returning("ok", "IfBranch")
    /\ Goto(Done, Pop)

ExecWhile ==
    /\ Executing("While")
    /\ Goto(Eval(ctl.stmt.condition, ctl.env),
            Push([k |-> "WhileCondition", stmt |-> ctl.stmt,
                  print_expr_result |-> ctl.print_expr_result,
                  env |-> ctl.env]))

WhileConditionRet ==
    /\ Returning("val", "WhileCondition")
    /\ IF is_truthy(ctl.v)
       THEN Goto(Exec(Top.stmt.body, Top.print_expr_result, Top.env),
                 Swap([Top EXCEPT !.k = "WhileBody"]))
       ELSE Goto(Done, Pop)

WhileBodyRet ==
    /\ Returning("ok", "WhileBody")
    /\ Goto(Eval(Top.stmt.condition, Top.env),
            Swap([Top EXCEPT !.k = "WhileCondition"]))

\* What the closure of a function declared in env sees, name by name.
Snapshot(h, env, name) ==
    [closure |-> env, name |-> name,
     bind |-> [x \in Names(h) |-> Resolve(h, env, x)]]

ExecFunction ==
    /\ Executing("Function")
    /\ LET function == Function(ctl.stmt.name.lexeme, ctl.stmt.params,
                                ctl.stmt.body, ctl.env)
           h == define(heap, ctl.env, ctl.stmt.name.lexeme, function)
       IN  /\ heap' = h
           /\ fsnap' = Append(fsnap, Snapshot(h, ctl.env, ctl.stmt.name.lexeme))
    /\ ctl' = Done
    /\ UNCHANGED <<kont, callOf, access>>
    /\ Quiet

ExecReturn ==
    /\ Executing("Return")
    /\ IF ctl.stmt.value.k # "None"
       THEN Goto(Eval(ctl.stmt.value, ctl.env), Push([k |-> "Return"]))
       ELSE Goto(Raise(Return(Nil)), kont)

ReturnRet ==
    /\ Returning("val", "Return")
    /\ Goto(Raise(Return(ctl.v)), Pop)

-----------------------------------------------------------------------------
(* Input programs: the statement lists the parser hands to the driver      *)

Id(name, line) == Token("Identifier", name, line)
Paren(line) == Token("RightParen", ")", line)

OpLexeme(type) ==
    CASE type = "Plus" -> "+"
      [] type = "Minus" -> "-"
      [] type = "Star" -> "*"
      [] type = "Slash" -> "/"
      [] type = "Greater" -> ">"
      [] type = "GreaterEqual" -> ">="
      [] type = "Less" -> "<"
      [] type = "LessEqual" -> "<="
      [] type = "EqualEqual" -> "=="
      [] type = "BangEqual" -> "!="
      [] type = "Bang" -> "!"
      [] type = "Or" -> "or"
      [] type = "And" -> "and"

Op(type, line) == Token(type, OpLexeme(type), line)

Num(n) == Literal(Number(n))
Str(s) == Literal(String(s))
Bool(b) == Literal(Boolean(b))
NilLit == Literal(Nil)
Ref(name, line) == Variable(Id(name, line))
CallOf(name, arguments, line) == Call(Ref(name, line), Paren(line), arguments)
Fun(name, params, body, line) ==
    FunctionStmt(Id(name, line), [i \in 1..Len(params) |-> Id(params[i], line)],
                 body)
Ret(value, line) == ReturnStmt(Token("Return", "return", line), value)
Var(name, initializer, line) == VarStmt(Id(name, line), initializer)
Set(name, value, line) == Assign(Id(name, line), value)
Add(left, right, line) == Binary(left, Op("Plus", line), right)

\* fun counter() { var n = 0; fun inc() { n = n + 1; return n; } return inc; }
\* var c = counter(); print c(); print c();
Counter ==
    << Fun("counter", <<>>,
           << Var("n", Num(0), 1),
              Fun("inc", <<>>,
                  << ExpressionStmt(Set("n", Add(Ref("n", 1), Num(1), 1), 1)),
                     Ret(Ref("n", 1), 1) >>, 1),
              Ret(Ref("inc", 1), 1) >>, 1),
       Var("c", CallOf("counter", <<>>, 2), 2),
       PrintStmt(CallOf("c", <<>>, 2)),
       PrintStmt(CallOf("c", <<>>, 2)) >>

\* var a = "global"; { fun showA() { print a; } showA(); var a = "block"; showA(); }
ShowA ==
    << Var("a", Str("global"), 1),
       BlockStmt(<< Fun("showA", <<>>, <<PrintStmt(Ref("a", 1))>>, 1),
                    ExpressionStmt(CallOf("showA", <<>>, 1)),
                    Var("a", Str("block"), 2),
                    ExpressionStmt(CallOf("showA", <<>>, 2)) >>) >>

\* var a = "global"; { fun setA() { a = "set"; } var a = "block"; setA(); print a; }
\* print a;
SetA ==
    << Var("a", Str("global"), 1),
       BlockStmt(<< Fun("setA", <<>>,
                        <<ExpressionStmt(Set("a", Str("set"), 1))>>, 1),
                    Var("a", Str("block"), 2),
                    ExpressionStmt(CallOf("setA", <<>>, 2)),
                    PrintStmt(Ref("a", 2)) >>),
       PrintStmt(Ref("a", 2)) >>

\* var a = "global"; fun show() { print a; } { var a = "caller"; show(); }
CallerScope ==
    << Var("a", Str("global"), 1),
       Fun("show", <<>>, <<PrintStmt(Ref("a", 1))>>, 1),
       BlockStmt(<< Var("a", Str("caller"), 2),
                    ExpressionStmt(CallOf("show", <<>>, 2)) >>) >>

\* fun f(x) { while (true) { if (x) { { return x; } } else return; print "no"; }
\*            print "never"; }
\* fun g() { print "g"; }
\* print f(1); print f(nil); print g(); print "after";
Unwind ==
    << Fun("f", <<"x">>,
           << WhileStmt(Bool(TRUE),
                  BlockStmt(<< IfStmt(Ref("x", 1),
                                      BlockStmt(<<BlockStmt(<<Ret(Ref("x", 1), 1)>>)>>),
                                      Ret(None, 1)),
                               PrintStmt(Str("no")) >>)),
              PrintStmt(Str("never")) >>, 1),
       Fun("g", <<>>, <<PrintStmt(Str("g"))>>, 2),
       PrintStmt(CallOf("f", <<Num(1)>>, 2)),
       PrintStmt(CallOf("f", <<NilLit>>, 2)),
       PrintStmt(CallOf("g", <<>>, 2)),
       PrintStmt(Str("after")) >>

\* fun fact(n) { if (n <= 1) return 1; return n * fact(n - 1); }
\* print fact(LoopMax + 1); print "after";
Fact ==
    << Fun("fact", <<"n">>,
           << IfStmt(Binary(Ref("n", 1), Op("LessEqual", 1), Num(1)),
                     Ret(Num(1), 1), None),
              Ret(Binary(Ref("n", 2), Op("Star", 2),
                         CallOf("fact", <<Binary(Ref("n", 2), Op("Minus", 2),
                                                 Num(1))>>, 2)), 2) >>, 1),
       PrintStmt(CallOf("fact", <<Num(LoopMax + 1)>>, 2)),
       PrintStmt(Str("after")) >>

\* var a = 1; { var a = 2; print a; } print a;
Shadow ==
    << Var("a", Num(1), 1),
       BlockStmt(<<Var("a", Num(2), 1), PrintStmt(Ref("a", 1))>>),
       PrintStmt(Ref("a", 1)) >>

\* var i = 0; while (i < LoopMax) { print i; i = i + 1; }
Loop ==
    << Var("i", Num(0), 1),
       WhileStmt(Binary(Ref("i", 1), Op("Less", 1), Num(LoopMax)),
                 BlockStmt(<< PrintStmt(Ref("i", 1)),
                              ExpressionStmt(Set("i", Add(Ref("i", 1), Num(1), 1),
                                                 1)) >>)) >>

\* fun f() { print 1 + nil; print "x"; }
\* fun g() { f(); print "y"; }
\* var n; { if (true) while (true) g(); n = 1; }
\* print "z";
Failing ==
    << Fun("f", <<>>, << PrintStmt(Add(Num(1), NilLit, 1)),
                         PrintStmt(Str("x")) >>, 1),
       Fun("g", <<>>, << ExpressionStmt(CallOf("f", <<>>, 2)),
                         PrintStmt(Str("y")) >>, 2),
       Var("n", None, 2),
       BlockStmt(<< IfStmt(Bool(TRUE),
                           WhileStmt(Bool(TRUE),
                                     ExpressionStmt(CallOf("g", <<>>, 2))),
                           None),
                    ExpressionStmt(Set("n", Num(1), 2)) >>),
       PrintStmt(Str("z")) >>

\* fun f(a, b) { print a; } f(1, x); print "z";
FailingArgument ==
    << Fun("f", <<"a", "b">>, <<PrintStmt(Ref("a", 1))>>, 1),
       ExpressionStmt(CallOf("f", <<Num(1), Ref("x", 2)>>, 2)),
       PrintStmt(Str("z")) >>

\* print "a"; return 1;
TopReturn == << PrintStmt(Str("a")), Ret(Num(1), 2) >>

\* { if (true) return; }
TopBlockReturn == << BlockStmt(<<IfStmt(Bool(TRUE), Ret(None, 1), None)>>) >>

\* "str"();
NotCallable == << ExpressionStmt(Call(Str("str"), Paren(2), <<>>)) >>

\* 1 + 2; { 3; } if (nil) 4; else 5; print -(1 + 2); print "hi" + " there";
Echo ==
    << ExpressionStmt(Add(Num(1), Num(2), 1)),
       BlockStmt(<<ExpressionStmt(Num(3))>>),
       IfStmt(NilLit, ExpressionStmt(Num(4)), ExpressionStmt(Num(5))),
       PrintStmt(Unary(Op("Minus", 1), Grouping(Add(Num(1), Num(2), 1)))),
       PrintStmt(Add(Str("hi"), Str(" there"), 1)) >>

\* print clock() >= 0; print clock;
Clock ==
    << PrintStmt(Binary(CallOf("clock", <<>>, 1), Op("GreaterEqual", 1), Num(0))),
       PrintStmt(Ref("clock", 1)) >>

\* { fun f() {} } print "after";
BlockFunction ==
    << BlockStmt(<<Fun("f", <<>>, <<>>, 1)>>), PrintStmt(Str("after")) >>

\* var i = 0; if (true) 7; while (i < LoopMax) i = i + 1;
\* fun f() { 8; } f(); { 9; } i;
Nested ==
    << Var("i", Num(0), 1),
       IfStmt(Bool(TRUE), ExpressionStmt(Num(7)), None),
       WhileStmt(Binary(Ref("i", 1), Op("Less", 1), Num(LoopMax)),
                 ExpressionStmt(Set("i", Add(Ref("i", 1), Num(1), 1), 1))),
       Fun("f", <<>>, <<ExpressionStmt(Num(8))>>, 2),
       ExpressionStmt(CallOf("f", <<>>, 2)),
       BlockStmt(<<ExpressionStmt(Num(9))>>),
       ExpressionStmt(Ref("i", 2)) >>

FixedPrograms ==
    << Counter, ShowA, SetA, CallerScope, Unwind, Fact, Shadow, Loop, Failing,
       FailingArgument, TopReturn, TopBlockReturn, NotCallable, Echo, Clock,
       BlockFunction, Nested >>

-----------------------------------------------------------------------------
(* Program families                                                        *)

BinaryOps ==
    {"Plus", "Minus", "Star", "Slash", "Greater", "GreaterEqual", "Less",
     "LessEqual", "EqualEqual", "BangEqual"}
UnaryOps == {"Minus", "Bang"}
LogicalOps == {"Or", "And"}
Lines == 1..MaxLine

\* Operand expressions: every literal shape, the native `clock`, and the
\* declared functions f and g.
Operands ==
    {[o |-> "num", n |-> n] : n \in 0..MaxNum}
    \cup {[o |-> "str", s |-> s] : s \in {"a", "b"}}
    \cup {[o |-> "bool", b |-> b] : b \in BOOLEAN}
    \cup {[o |-> "nil"]}
    \cup {[o |-> "ref", name |-> name] : name \in {"clock", "f", "g"}}

OperandExpr(x) ==
    CASE x.o = "num" -> Num(x.n)
      [] x.o = "str" -> Str(x.s)
      [] x.o = "bool" -> Bool(x.b)
      [] x.o = "nil" -> NilLit
      [] x.o = "ref" -> Ref(x.name, 1)

\* Quotients of the model are exact: both operands are integer-valued.
Exact(type, l, r) ==
    type = "Slash" /\ l.o = "num" /\ r.o = "num" /\ r.n # 0 => l.n % r.n = 0

Prelude == << Fun("f", <<>>, <<>>, 1), Fun("g", <<>>, <<>>, 1) >>

\* fun f() {} fun g() {} print L <op> R;
BinaryProgram(p) ==
    Prelude \o
    << PrintStmt(Binary(OperandExpr(p.l), Op(p.op, p.line), OperandExpr(p.r))) >>

\* fun f() {} fun g() {} print <op> R;
UnaryProgram(p) ==
    Prelude \o << PrintStmt(Unary(Op(p.op, p.line), OperandExpr(p.r))) >>

\* var a = 0; var b = 0; fun f() {} fun g() {}
\* fun A() { a = a + 1; return L; }  fun B() { b = b + 1; return "rhs"; }
\* print A() <op> B(); print a; print b;
LogicalProgram(p) ==
    << Var("a", Num(0), 1), Var("b", Num(0), 1) >> \o Prelude \o
    << Fun("A", <<>>,
           << ExpressionStmt(Set("a", Add(Ref("a", 1), Num(1), 1), 1)),
              Ret(OperandExpr(p.l), 1) >>, 1),
       Fun("B", <<>>,
           << ExpressionStmt(Set("b", Add(Ref("b", 1), Num(1), 1), 1)),
              Ret(Str("rhs"), 1) >>, 1),
       PrintStmt(Logical(CallOf("A", <<>>, 2), Op(p.op, 2), CallOf("B", <<>>, 2))),
       PrintStmt(Ref("a", 2)),
       PrintStmt(Ref("b", 2)) >>

Declared(flag, name, text) ==
    IF flag THEN <<Var(name, Str(text), 1)>> ELSE <<>>

\* var y = "y"; [var x = "g";]
\* { [var x = "b1";] var z = "z"; { [var x = "b2";] x = "new"; print x; } print z; }
\* print y;
AssignProgram(p) ==
    << Var("y", Str("y"), 1) >> \o Declared(p.g, "x", "g") \o
    << BlockStmt(
           Declared(p.b1, "x", "b1") \o
           << Var("z", Str("z"), 1),
              BlockStmt(Declared(p.b2, "x", "b2") \o
                        << ExpressionStmt(Set("x", Str("new"), p.line)),
                           PrintStmt(Ref("x", 2)) >>),
              PrintStmt(Ref("z", 2)) >>),
       PrintStmt(Ref("y", 2)) >>

\* print NAME;      or      fun f() { print NAME; } f();
UndefinedProgram(p) ==
    IF p.inner
    THEN << Fun("f", <<>>, <<PrintStmt(Ref(p.name, p.line))>>, 1),
            ExpressionStmt(CallOf("f", <<>>, 1)),
            PrintStmt(Str("after")) >>
    ELSE << PrintStmt(Ref(p.name, p.line)), PrintStmt(Str("after")) >>

ParamNames == [i \in 1..(MaxArity + 1) |-> "p" \o IntStr(i)]

\* var t = 0; fun f(p1, .., pn) { t = 1; print "body"; }
\* f(t = 2, ..);  or  clock(t = 2, ..);   print t;
ArityProgram(p) ==
    << Var("t", Num(0), 1),
       Fun("f", SubSeq(ParamNames, 1, p.nparams),
           << ExpressionStmt(Set("t", Num(1), 1)), PrintStmt(Str("body")) >>, 1),
       ExpressionStmt(CallOf(IF p.native THEN "clock" ELSE "f",
                             [i \in 1..p.nargs |-> Set("t", Num(2), 2)], 2)),
       PrintStmt(Ref("t", 2)) >>

Inputs ==
    {[fam |-> "fixed", id |-> i] : i \in 1..Len(FixedPrograms)}
    \cup {p \in [fam : {"binary"}, op : BinaryOps, l : Operands, r : Operands,
                 line : Lines] : Exact(p.op, p.l, p.r)}
    \cup [fam : {"unary"}, op : UnaryOps, r : Operands, line : Lines]
    \cup [fam : {"logical"}, op : LogicalOps, l : Operands]
    \cup [fam : {"assign"}, g : BOOLEAN, b1 : BOOLEAN, b2 : BOOLEAN, line : Lines]
    \cup [fam : {"undefined"}, name : {"x", "y"}, line : Lines, inner : BOOLEAN]
    \cup [fam : {"arity"}, native : BOOLEAN, nparams : 0..MaxArity,
          nargs : 0..MaxArity]

Statements(p) ==
    CASE p.fam = "fixed" -> FixedPrograms[p.id]
      [] p.fam = "binary" -> BinaryProgram(p)
      [] p.fam = "unary" -> UnaryProgram(p)
      [] p.fam = "logical" -> LogicalProgram(p)
      [] p.fam = "assign" -> AssignProgram(p)
      [] p.fam = "undefined" -> UndefinedProgram(p)
      [] p.fam = "arity" -> ArityProgram(p)

-----------------------------------------------------------------------------
(* The driver: resolve, interpret, report                                  *)

\* Resolver: a return statement outside every function body.
RECURSIVE ReturnOutsideFunction(_)
ReturnOutsideFunction(stmt) ==
    CASE stmt.k = "Return" -> TRUE
      [] stmt.k = "Block" ->
            \E i \in 1..Len(stmt.statements) :
                ReturnOutsideFunction(stmt.statements[i])
      [] stmt.k = "If" ->
            \/ ReturnOutsideFunction(stmt.then_branch)
            \/ stmt.else_branch.k # "None"
               /\ ReturnOutsideFunction(stmt.else_branch)
      [] stmt.k = "While" -> ReturnOutsideFunction(stmt.body)
      [] OTHER -> FALSE

resolve(statements) ==
    IF \E i \in 1..Len(statements) : ReturnOutsideFunction(statements[i])
    THEN Err("Can't return from top-level code.")
    ELSE Ok(TRUE)

print_expression_results == cmd = "evaluate"

ResolveFails ==
    /\ ctl.m = "start"
    /\ ~resolve(Statements(prog)).ok
    /\ stderr' = Append(stderr, "Error: " \o resolve(Statements(prog)).e)
    /\ exit' = 65
    /\ ctl' = [m |-> "exited"]
    /\ UNCHANGED <<prog, cmd, kont, heap, stdout>>
    /\ NoHistory

\* Interpreter::new and the entry of interpret: the global frame, with natives
Interpret ==
    /\ ctl.m = "start"
    /\ resolve(Statements(prog)).ok
    /\ heap' = define_natives(<<new>>, 1)
    /\ callOf' = <<None>>
    /\ kont' = <<[k |-> "Interpret", i |-> 1]>>
    /\ ctl' = Done
    /\ UNCHANGED <<fsnap, access>>
    /\ Quiet

\* interpret: the next top-level statement, or Ok(()) after the last
InterpretNext ==
    /\ Returning("ok", "Interpret")
    /\ IF Top.i <= Len(Statements(prog))
       THEN Goto(Exec(Statements(prog)[Top.i], print_expression_results, 1),
                 Swap([Top EXCEPT !.i = Top.i + 1]))
       ELSE Goto(Done, Pop)

\* What the driver does with interpret's result.
report(result) ==
    CASE result.m = "ok" -> [stderr |-> <<>>, exit |-> 0]
      [] result.e.t = "Error" ->
            [stderr |-> <<result.e.message \o " [line " \o IntStr(result.e.line)
                          \o "]">>,
             exit |-> 70]
      [] result.e.t = "Return" -> [stderr |-> <<>>, exit |-> 70]

Report ==
    /\ ctl.m \in {"ok", "err"}
    /\ kont = <<>>
    /\ stderr' = stderr \o report(ctl).stderr
    /\ exit' = report(ctl).exit
    /\ ctl' = [m |-> "exited", result |-> ctl]
    /\ UNCHANGED <<prog, cmd, kont, heap, stdout>>
    /\ NoHistory

-----------------------------------------------------------------------------
Init ==
    /\ prog \in Inputs
    /\ cmd \in {"run", "evaluate"}
    /\ ctl = [m |-> "start"]
    /\ kont = <<>>
    /\ heap = <<>>
    /\ stdout = <<>>
    /\ stderr = <<>>
    /\ exit = NoExit
    /\ fsnap = <<>>
    /\ callOf = <<>>
    /\ access = None

Next ==
    \/ ResolveFails \/ Interpret \/ InterpretNext \/ Report
    \/ EvalLiteral \/ EvalGrouping
    \/ EvalUnary \/ UnaryRet
    \/ EvalBinary \/ BinaryLeftRet \/ BinaryRightRet
    \/ EvalVariable
    \/ EvalAssign \/ AssignRet
    \/ EvalLogical \/ LogicalRet
    \/ EvalCall \/ CallRefused \/ CallNative \/ CallFunction \/ ArgumentRet
    \/ CallBodyRet
    \/ Propagate
    \/ ExecPrint \/ PrintRet
    \/ ExecExpression \/ ExpressionRet
    \/ ExecVar \/ VarRet
    \/ ExecBlock \/ BlockNext
    \/ ExecIf \/ IfConditionRet \/ IfBranchRet
    \/ ExecWhile \/ WhileConditionRet \/ WhileBodyRet
    \/ ExecFunction
    \/ ExecReturn \/ ReturnRet

Spec == Init /\ [][Next]_vars

-----------------------------------------------------------------------------
(* Properties                                                              *)

Exited == ctl.m = "exited"
Fixed(program) ==
    prog.fam = "fixed" /\ FixedPrograms[prog.id] = program

IsCallFrame(env) == "closure" \in DOMAIN callOf[env]

Least(S) == CHOOSE i \in S : \A j \in S : i <= j
Greatest(S) == CHOOSE i \in S : \A j \in S : j <= i

\* The bindings seen by the closure of the function whose call made frame env.
SnapshotOf(env) ==
    fsnap[Greatest({i \in 1..Len(fsnap) :
                       /\ fsnap[i].closure = callOf[env].closure
                       /\ fsnap[i].name = callOf[env].name})]

\* C1: a name that a function body reads or assigns and that is not declared
\* inside the function refers, on every invocation, to the binding (frame and
\* name) it referred to when the function declaration was executed, also when
\* the name is declared afterwards in the declaring or in the calling scope.
ClosureCapture ==
    "target" \in DOMAIN access =>
        LET ch == Chain(heap, access.env)
            calls == {i \in 1..Len(ch) : IsCallFrame(ch[i])}
        IN  calls # {} =>
                LET body == Least(calls)
                    seen == SnapshotOf(ch[body]).bind
                    inside == \E j \in 1..body : ch[j] = access.target
                IN  (/\ ~inside
                     /\ access.name \in DOMAIN seen
                     /\ seen[access.name] # NoFrame)
                    => access.target = seen[access.name]

\* The Block frame of the function body that the innermost active Call runs.
InnermostCall ==
    LET calls == {i \in 1..Len(kont) : kont[i].k = "CallBody"}
    IN  IF calls = {} THEN NoFrame ELSE kont[Least(calls) - 1].env

\* The call frame of the function whose body lexically holds frame env.
RECURSIVE EnclosingFunction(_)
EnclosingFunction(env) ==
    IF env = NoFrame THEN NoFrame
    ELSE IF IsCallFrame(env) THEN env
    ELSE EnclosingFunction(heap[env].enclosing)

RECURSIVE Factorial(_)
Factorial(n) == IF n <= 1 THEN 1 ELSE n * Factorial(n - 1)

ReturnStep ==
    /\ Executing("Return") =>
          /\ InnermostCall # NoFrame
          /\ InnermostCall = EnclosingFunction(ctl.env)
          /\ ctl.stmt.value.k = "None" =>
                ctl' = [m |-> "err", e |-> [t |-> "Return", value |-> Nil]]
    /\ ctl.m = "err" /\ ctl.e.t = "Return" =>
          /\ kont # <<>>
          /\ kont' = Tail(kont)
          /\ heap' = heap
          /\ stdout' = stdout
          /\ ctl' = IF Head(kont).k = "CallBody"
                    THEN [m |-> "val", v |-> ctl.e.value] ELSE ctl
    /\ ctl.m = "ok" /\ kont # <<>> /\ Head(kont).k = "CallBody" =>
          /\ ctl' = [m |-> "val", v |-> Nil]
          /\ kont' = Tail(kont)
    /\ ctl'.m = "exited" /\ Fixed(Unwind) /\ cmd = "run" =>
          stdout' = <<"1", "nil", "g", "nil", "after">> /\ exit' = 0
    /\ ctl'.m = "exited" /\ Fixed(Fact) /\ cmd = "run" =>
          stdout' = <<IntStr(Factorial(LoopMax + 1)), "after">>

\* C2: a return statement inside the body of F, however deeply nested in
\* blocks, ifs and whiles, unwinds exactly to the innermost active Call of F:
\* the signal passes every other caller unchanged, touching no frame and
\* printing nothing; the Call's result is the returned value, Nil for a bare
\* return or a body that ends without one; the caller then goes on.
ReturnLocality == [][ReturnStep]_vars

ReturnLocalityWitness ==
    /\ Exited
    /\ Fixed(Unwind)
    /\ stdout = <<"1", "nil", "g", "nil", "after">>

ErrorStep ==
    ctl.m = "err" /\ ctl.e.t = "Error" =>
        /\ heap' = heap
        /\ stdout' = stdout
        /\ stderr = <<>>
        /\ exit = NoExit
        /\ IF kont # <<>>
           THEN ctl' = ctl /\ kont' = Tail(kont) /\ stderr' = stderr
                /\ exit' = exit
           ELSE /\ ctl'.m = "exited"
                /\ stderr' = <<ctl.e.message \o " [line " \o IntStr(ctl.e.line)
                               \o "]">>
                /\ exit' = 70

\* C3: once a runtime error is raised, at any depth, no statement is executed,
\* nothing is printed and no frame is modified; the error passes every
\* enclosing call, block and statement list to the driver, which reports it
\* once as "{message} [line {line}]" and exits with code 70.
ErrorPropagation == [][ErrorStep]_vars

ErrorPropagationWitness ==
    /\ Exited
    /\ Fixed(Failing)
    /\ stdout = <<>>
    /\ stderr = <<"Operands must be two numbers or two strings. [line 1]">>
    /\ exit = 70
    /\ "n" \in DOMAIN heap[1].values
    /\ heap[1].values["n"].t = "Nil"

Mismatch(callee, arguments) ==
    \/ callee.t = "Function" /\ Len(arguments) # Len(callee.params)
    \/ callee.t = "NativeFunction" /\ Len(arguments) # 0

ArityStep ==
    /\ (/\ ctl.m = "val"
        /\ kont # <<>>
        /\ Head(kont).k = "Callee"
        /\ Mismatch(ctl.v, Head(kont).expr.arguments)) =>
            /\ ctl'.m = "err"
            /\ ctl'.e.t = "Error"
            /\ ctl'.e.line = Head(kont).expr.paren.line
            /\ heap' = heap
            /\ stdout' = stdout
            /\ kont' = Tail(kont)
    /\ (/\ ctl'.m = "exited"
        /\ prog.fam = "arity"
        /\ prog.nargs # (IF prog.native THEN 0 ELSE prog.nparams)) =>
            /\ exit' = 70
            /\ stdout' = <<>>
            /\ Len(heap') = 1
            /\ heap'[1].values["t"] = [t |-> "Number", n |-> 0]

\* C4: a call whose argument count differs from the callee's arity (the
\* parameter count of a function, 0 for a native) raises a runtime error;
\* no statement of the body is executed, no parameter is bound and no frame
\* is created or modified by the call.
ArityStrictness == [][ArityStep]_vars

ArityStrictnessWitness ==
    /\ Exited
    /\ prog.fam = "arity"
    /\ ~prog.native
    /\ prog.nparams = 2
    /\ prog.nargs = 1
    /\ stderr = <<"Expected 2 arguments but got 1. [line 2]">>

Falsey(x) == x.o = "nil" \/ (x.o = "bool" /\ ~x.b)

Shown(x) ==
    CASE x.o = "num" -> IntStr(x.n)
      [] x.o = "str" -> x.s
      [] x.o = "bool" -> IF x.b THEN "true" ELSE "false"
      [] x.o = "nil" -> "nil"
      [] x.o = "ref" /\ x.name = "clock" -> "<native fn>"
      [] x.o = "ref" /\ x.name # "clock" -> "<fn " \o x.name \o ">"

FalseyValue(v) == v.t = "Nil" \/ (v.t = "Boolean" /\ ~v.b)

\* Whether the right operand of `a <operator> b` is to be evaluated.
NeedsRight(type, falsey) == IF type = "Or" THEN falsey ELSE ~falsey

LogicalStep ==
    /\ (ctl.m = "val" /\ kont # <<>> /\ Head(kont).k = "Logical") =>
          /\ kont' = Tail(kont)
          /\ heap' = heap
          /\ IF NeedsRight(Head(kont).expr.operator.type, FalseyValue(ctl.v))
             THEN ctl' = [m |-> "eval", expr |-> Head(kont).expr.right,
                          env |-> Head(kont).env]
             ELSE ctl' = ctl
    /\ (ctl'.m = "exited" /\ prog.fam = "logical") =>
          /\ exit' = 0
          /\ stdout' = IF NeedsRight(prog.op, Falsey(prog.l))
                       THEN <<"rhs", "1", "1">>
                       ELSE <<Shown(prog.l), "1", "0">>

\* C5: in `a or b`, b is evaluated iff a is falsey (false or nil); in
\* `a and b`, iff a is truthy; when b is not evaluated the result is the
\* value of a itself, not a Boolean made from it; a is evaluated exactly once.
ShortCircuit == [][LogicalStep]_vars

ShortCircuitWitness ==
    /\ Exited
    /\ prog.fam = "logical"
    /\ prog.op = "Or"
    /\ prog.l = [o |-> "num", n |-> 0]
    /\ stdout = <<"0", "1", "0">>

Variant(x) ==
    CASE x.o = "num" -> "Number"
      [] x.o = "str" -> "String"
      [] x.o = "bool" -> "Boolean"
      [] x.o = "nil" -> "Nil"
      [] x.o = "ref" /\ x.name = "clock" -> "NativeFunction"
      [] x.o = "ref" /\ x.name # "clock" -> "Function"

\* What `print l == r;` is to write where the claim decides it.
EqualityDecided(l, r) == l = r \/ Variant(l) # Variant(r)
EqualityExpected(l, r) == IF l = r THEN "true" ELSE "false"
Negated(text) == IF text = "true" THEN "false" ELSE "true"

\* C6: `==` is reflexive on every (non-NaN) value of every variant, Number,
\* String, Boolean, Nil, NativeFunction and Function; values of different
\* variants are never equal; `!=` is the negation of `==`.
EqualityReflexive ==
    (/\ Exited
     /\ prog.fam = "binary"
     /\ prog.op \in {"EqualEqual", "BangEqual"}
     /\ EqualityDecided(prog.l, prog.r)) =>
        stdout = <<IF prog.op = "EqualEqual"
                   THEN EqualityExpected(prog.l, prog.r)
                   ELSE Negated(EqualityExpected(prog.l, prog.r))>>

Holders(h, env, name) ==
    {i \in 1..Len(Chain(h, env)) : name \in DOMAIN h[Chain(h, env)[i]].values}

AssignStep ==
    (ctl.m = "val" /\ kont # <<>> /\ Head(kont).k = "Assign") =>
        LET name == Head(kont).name.lexeme
            ch == Chain(heap, Head(kont).env)
            holders == Holders(heap, Head(kont).env, name)
        IN  /\ Len(heap') = Len(heap)
            /\ \A f \in 1..Len(heap) :
                  /\ DOMAIN heap'[f].values = DOMAIN heap[f].values
                  /\ heap'[f].enclosing = heap[f].enclosing
            /\ IF holders # {}
               THEN /\ ctl' = ctl
                    /\ \A f \in 1..Len(heap) : \A x \in DOMAIN heap[f].values :
                          heap'[f].values[x] =
                              IF f = ch[Least(holders)] /\ x = name
                              THEN ctl.v ELSE heap[f].values[x]
               ELSE /\ heap' = heap
                    /\ ctl'.m = "err"
                    /\ ctl'.e.t = "Error"
                    /\ ctl'.e.message = "Undefined variable '" \o name \o "'"
                    /\ ctl'.e.line = Head(kont).name.line

\* C7: assign never creates a binding: when a frame on the chain from the
\* current frame to the root holds the name, the nearest such frame's binding
\* takes the value and every other binding of every frame is unchanged; when
\* none holds it, assign fails with "Undefined variable" and no frame changes.
AssignNeverCreates == [][AssignStep]_vars

AssignNeverCreatesWitness ==
    /\ Exited
    /\ prog.fam = "assign"
    /\ prog.g /\ prog.b1 /\ ~prog.b2
    /\ heap[1].values["x"] = [t |-> "String", s |-> "g"]
    /\ heap[2].values["x"] = [t |-> "String", s |-> "new"]
    /\ stdout = <<"new", "z", "y">>

\* C8: the Return signal is caught by a Call only: interpreting the
\* top-level statements of a program the driver runs never ends with the
\* Return signal in the driver's hands.
ReturnNeverAtDriver ==
    /\ (ctl.m = "err" /\ ctl.e.t = "Return") =>
          kont # <<>> /\ Head(kont).k # "Interpret"
    /\ (Exited /\ "result" \in DOMAIN ctl /\ ctl.result.m = "err") =>
          ctl.result.e.t = "Error"

ReturnNeverAtDriverWitness ==
    /\ ctl.m = "err"
    /\ ctl.e.t = "Return"
    /\ kont # <<>>
    /\ Head(kont).k = "WhileBody"
    /\ Fixed(Unwind)

\* C9: a runtime error raised by an operator (unary -, binary + - * / < <=
\* > >=) on operands of the wrong type, or by a division by zero, carries
\* the line of the operator's token.
OperatorErrorLine ==
    (Exited /\ prog.fam \in {"binary", "unary"} /\ exit = 70) =>
        ctl.result.e.line = prog.line

\* C10: reading a variable x that no frame on the chain to the global root
\* binds fails with an error the driver reports as
\* "Undefined variable 'x'. [line L]", L the line of the referencing token,
\* and the process exits with code 70.
UndefinedVariableReport ==
    (Exited /\ prog.fam = "undefined") =>
        /\ stderr = <<"Undefined variable '" \o prog.name \o "'. [line "
                      \o IntStr(prog.line) \o "]">>
        /\ exit = 70

-----------------------------------------------------------------------------
(* Ownership of frames (strong Rc references)                              *)

Frames == 1..Len(heap)

\* The frame a value holds a strong reference to, if any.
Captured(v) == IF v.t = "Function" THEN {v.closure} ELSE {}

\* The function values bound in frame f.
Bound(f) == {heap[f].values[x] : x \in DOMAIN heap[f].values}

\* The frames that frame f owns: its parent, and the captured frame of every
\* function value bound in it.
Owned(f) ==
    ({heap[f].enclosing} \ {NoFrame}) \cup UNION {Captured(v) : v \in Bound(f)}

OwnedBy(S) == UNION {Owned(f) : f \in S}

RECURSIVE ReachFrom(_)
ReachFrom(S) == IF OwnedBy(S) \subseteq S THEN S ELSE ReachFrom(S \cup OwnedBy(S))

\* Frame f is on an ownership cycle.
OnCycle(f) == f \in ReachFrom(Owned(f))

\* The frames the running interpreter itself references: the global frame,
\* the frame of the current step, the frames and values that suspended
\* evaluations hold.
Roots ==
    IF ctl.m \in {"start", "exited"} THEN {}
    ELSE {1}
         \cup (IF "env" \in DOMAIN ctl THEN {ctl.env} ELSE {})
         \cup (IF ctl.m = "val" THEN Captured(ctl.v) ELSE {})
         \cup (IF ctl.m = "err" /\ ctl.e.t = "Return"
               THEN Captured(ctl.e.value) ELSE {})
         \cup UNION {(IF "env" \in DOMAIN kont[i] THEN {kont[i].env} ELSE {})
                     \cup (IF "function_env" \in DOMAIN kont[i]
                           THEN {kont[i].function_env} ELSE {})
                     \cup (IF "left" \in DOMAIN kont[i]
                           THEN Captured(kont[i].left) ELSE {})
                     : i \in 1..Len(kont)}

\* The frames whose reference count is not zero: the greatest set in which
\* every frame is referenced by the interpreter or by a frame of the set.
RECURSIVE Retained(_)
Retained(S) ==
    LET keep == {f \in S : f \in Roots \/ f \in OwnedBy(S)}
    IN  IF keep = S THEN S ELSE Retained(keep)

\* C11: in every reachable state the strong-ownership graph over frames is
\* acyclic (a frame owns its parent and the captured frame of every function
\* value bound in it): a function value captures a frame strictly older than
\* any frame that holds it, and so every frame that neither a reachable
\* function value nor the running execution references has reference count
\* zero.
OwnershipAcyclic ==
    /\ \A f \in Frames : ~OnCycle(f)
    /\ \A f \in Frames : \A v \in Bound(f) : \A c \in Captured(v) : c < f
    /\ Retained(Frames) \subseteq ReachFrom(Roots)

-----------------------------------------------------------------------------
(* Echo of expression statements                                           *)

\* The expression statement whose value has just been computed is itself a
\* statement of the list given to interpret.
TopLevel == Len(kont) = 2 /\ kont[2].k = "Interpret"

EchoStep ==
    Returning("val", "Expression") /\ ~(print_expression_results /\ TopLevel)
        => stdout' = stdout

\* C12: with print_expression_results true an expression statement prints
\* its value only if it is itself a statement of the top-level list; nested
\* inside a block, a function body, a branch of an if or the body of a while
\* it prints nothing. With print_expression_results false no expression
\* statement prints anything.
EchoOnlyTopLevel == [][EchoStep]_vars

-----------------------------------------------------------------------------
(* Order of the steps of a call                                            *)

CallOrderStep ==
    \* after the callee, the first argument: no check, no frame yet
    /\ (Returning("val", "Callee") /\ Top.expr.arguments # <<>>) =>
          /\ ctl' = Eval(Top.expr.arguments[1], Top.env)
          /\ heap' = heap
    \* no parameter is bound while an argument is still to be evaluated
    /\ (Returning("val", "Argument") /\ Top.i < Len(Top.arguments)) =>
          /\ ctl' = Eval(Top.arguments[Top.i + 1], Top.env)
          /\ heap' = heap
    \* the arguments `t = 2` of a refused call have been evaluated
    /\ (/\ ctl'.m = "exited"
        /\ prog.fam = "arity"
        /\ prog.nargs > 0
        /\ (prog.native \/ prog.nargs # prog.nparams)) =>
          heap[1].values["t"] = Number(2)

\* C13: every call first evaluates the callee, then every argument exactly
\* once, left to right, in the caller's environment; only after all
\* arguments are evaluated are callability and arity checked and, for a
\* function value, the new frame (parent: the captured environment) created
\* and the parameters bound to the argument values in order.
CallOrder == [][CallOrderStep]_vars

====
